---- MODULE Spec2Model ----
(***************************************************************************)
(* MedReserve backend: the slot-claim path (bookSlot, createBooking), the  *)
(* booking expiry job and the server start-up, over a PostgreSQL store     *)
(* with READ COMMITTED transactions.                                       *)
(*                                                                         *)
(* Time is counted in units of 30 seconds.  A timestamp column is a set:   *)
(* {} is SQL NULL, {t} the value t.                                        *)
(***************************************************************************)
EXTENDS Integers, FiniteSets, Sequences, TLC

\* ---------------------------------------------------------------- bounds
NumReq == 2
MaxTime == 2
MaxFaults == 1
MaxInFlight == 2
MaxJobTime == 4

\* ------------------------------------------------------ program constants
\* setInterval(..., 30000): one time unit
IntervalTicks == 1
\* NOW() + INTERVAL '2 minutes'
GraceTicks == 4
\* (now - lastConnectionError) > 60000, 60 * 1000
ThrottleTicks == 2
\* new Pool({ max: 20 })
PoolMax == 20
\* connectionTimeoutMillis: 20000, within one time unit
ConnectTimeoutTicks == 1

Requests == 1..NumReq
\* rows of table slots present in the store; 3 is an id with no slots row
Slots == {1, 2}
SlotIds == {1, 2, 3}
\* the claimant of request r (patientNames of the concurrency script)
PatientNames == <<"Alice Johnson", "Bob Smith", "Charlie Brown", "Diana Prince", "Eve Wilson">>
NameOf(r) == PatientNames[((r - 1) % Len(PatientNames)) + 1]

VARIABLES
  now,            \* the clock, NOW() / Date.now()
  dbUp,           \* storage reachable
  faults,         \* connectivity losses so far
  poolMax,        \* the size of the connection pool
  columnExists,   \* bookings.expires_at exists
  bookings,       \* committed rows of table bookings
  booking_slots,  \* committed rows of table booking_slots
  bookingSeq,     \* the SERIAL sequence of bookings.id
  server,         \* position of startServer
  jobStarted,     \* bookingExpiryJob.start was called
  nextFire,       \* when the setInterval timer fires next
  sweep,          \* runExpiryCheck calls in flight, by await point
  rowsUpdated,    \* result.rowCount of the last UPDATE of the job (-1: none yet)
  sweepRuns,      \* completed UPDATEs of the job, counted to 2
  cleared,        \* clearInterval was called on the job's timer
  lastConnectionError, \* runExpiryCheck.lastConnectionError / lastDbErrorAt
  outcome,        \* how the last finished runExpiryCheck ended, what it logged and returned
  connReports,    \* times of the last two connectivity reports of the job
  pc,             \* per request: the await point of its handler
  req,            \* per request: entry point, slot id, claimant name
  tx,             \* per request: its connection and open transaction
  resp,           \* per request: the HTTP response sent
  checkouts,      \* per request: connections taken from and returned to the pool
  work            \* per request: BEGIN went through, ROLLBACKs sent

dbVars == <<columnExists, bookings, booking_slots, bookingSeq>>
envVars == <<now, dbUp, faults, poolMax>>
logVars == <<lastConnectionError, outcome, connReports>>
jobVars == <<jobStarted, nextFire, sweep, rowsUpdated, sweepRuns, cleared, logVars>>
reqVars == <<pc, req, tx, resp, checkouts, work>>
vars == <<now, dbUp, faults, poolMax, columnExists, bookings, booking_slots, bookingSeq,
          server, jobStarted, nextFire, sweep, rowsUpdated, sweepRuns,
          cleared, lastConnectionError, outcome, connReports,
          pc, req, tx, resp, checkouts, work>>

\* ------------------------------------------------------------ the schema
Row(id, slot, name, status, created, updated, expires) ==
  [id |-> id, slot_id |-> slot, patient_name |-> name, status |-> status,
   created_at |-> created, updated_at |-> updated, expires_at |-> expires]

Own(bid, slot) == [booking_id |-> bid, slot_id |-> slot]

\* rows the store may hold before this process starts (earlier runs, other writers)
LegacyRows(withColumn) ==
  { Row(1, 1, "Legacy One", "PENDING", 0 - 3, 0 - 3, IF withColumn THEN {1} ELSE {}),
    Row(2, 1, "Legacy Two", "PENDING", 0 - 3, 0 - 3, {}),
    Row(3, 2, "Legacy Three", "CONFIRMED", 0 - 3, 0 - 3, IF withColumn THEN {1} ELSE {}),
    Row(4, 1, "Legacy Four", "FAILED", 0 - 3, 0 - 3, IF withColumn THEN {1} ELSE {}) }

LegacyOwns == { Own(3, 2) }

\* no run of runExpiryCheck has finished yet
NoOutcome == [result |-> "none", reported |-> FALSE, returned |-> {}]

NoWork == [began |-> FALSE, rollbacks |-> 0]

NoTx == [conn |-> FALSE, broken |-> FALSE, open |-> FALSE, ts |-> 0,
         xlock |-> FALSE, slock |-> FALSE, row |-> {}, own |-> FALSE, err |-> "none"]

\* the state at process start, for a store reachable or not and migrated or not
InitWith(reachable, migrated, clock) ==
  /\ now = clock
  /\ dbUp \in reachable
  /\ faults = 0
  /\ columnExists \in migrated
  /\ \E legacy \in BOOLEAN :
       /\ bookings = IF legacy THEN LegacyRows(columnExists) ELSE {}
       /\ booking_slots = IF legacy THEN LegacyOwns ELSE {}
       /\ bookingSeq = IF legacy THEN 5 ELSE 1
  /\ server = "boot"
  /\ jobStarted = FALSE
  /\ nextFire = now
  /\ sweep = [check |-> 0, update |-> 0]
  /\ rowsUpdated = 0 - 1
  /\ sweepRuns = 0
  /\ cleared = FALSE
  /\ lastConnectionError = {}
  /\ outcome = NoOutcome
  /\ connReports = <<>>
  /\ pc = [r \in Requests |-> "idle"]
  /\ req = [r \in Requests |-> [entry |-> "none", slotId |-> 1, name |-> ""]]
  /\ tx = [r \in Requests |-> NoTx]
  /\ resp = [r \in Requests |-> [status |-> 0, body |-> {}, code |-> "none"]]
  /\ checkouts = [r \in Requests |-> [out |-> 0, back |-> 0]]
  /\ work = [r \in Requests |-> NoWork]

Init == InitWith(BOOLEAN, BOOLEAN, 0) /\ poolMax = PoolMax

\* ------------------------------------------------------- the environment
\* a timer that goes on firing after clearInterval
TimerDueAfterClear == jobStarted /\ server # "exited" /\ now >= nextFire

\* the interval timer is armed and its time has come
TimerDue == jobStarted /\ ~cleared /\ server # "exited" /\ now >= nextFire

\* time passes; a due timer fires before the clock moves on
Tick(horizon) ==
  /\ now < horizon
  /\ ~TimerDue
  /\ now' = now + 1
  /\ UNCHANGED <<dbUp, faults, poolMax, dbVars, server, jobVars, reqVars>>

\* the server ends the session of every connection it loses: the open
\* transaction is aborted, its writes and row locks are gone
Severed(t) ==
  IF t.conn
  THEN [t EXCEPT !.broken = TRUE, !.open = FALSE, !.xlock = FALSE, !.slock = FALSE,
                 !.row = {}, !.own = FALSE]
  ELSE t

DbDown ==
  /\ dbUp
  /\ faults < MaxFaults
  /\ dbUp' = FALSE
  /\ faults' = faults + 1
  /\ tx' = [r \in Requests |-> Severed(tx[r])]
  /\ UNCHANGED <<now, poolMax, dbVars, server, jobVars, pc, req, resp, checkouts, work>>

DbUp ==
  /\ ~dbUp
  /\ dbUp' = TRUE
  /\ UNCHANGED <<now, faults, poolMax, dbVars, server, jobVars, reqVars>>

\* one connection is lost (reset, idle-session or statement timeout)
ConnLost(r) ==
  /\ tx[r].conn
  /\ ~tx[r].broken
  /\ faults < MaxFaults
  /\ faults' = faults + 1
  /\ tx' = [tx EXCEPT ![r] = Severed(tx[r])]
  /\ UNCHANGED <<now, dbUp, poolMax, dbVars, server, jobVars, pc, req, resp, checkouts, work>>

\* --------------------------------------------------------- the migration
\* a backfill that counts the two minutes from the time of the migration
BackfillFromNow(rows) ==
  { IF b.status = "PENDING" /\ b.expires_at = {}
    THEN [b EXCEPT !.expires_at = {now + GraceTicks}]
    ELSE b : b \in rows }

\* UPDATE bookings SET expires_at = created_at + INTERVAL '2 minutes'
\*  WHERE status = 'PENDING' AND expires_at IS NULL
Backfill(rows) ==
  { IF b.status = "PENDING" /\ b.expires_at = {}
    THEN [b EXCEPT !.expires_at = {b.created_at + GraceTicks}]
    ELSE b : b \in rows }

\* the script run by `npm run migrate`: ALTER TABLE, backfill, index, COMMIT
runMigration ==
  /\ dbUp
  /\ ~columnExists \/ Backfill(bookings) # bookings
  /\ columnExists' = TRUE
  /\ bookings' = Backfill(bookings)
  /\ UNCHANGED <<envVars, booking_slots, bookingSeq, server, jobVars, reqVars>>

\* ------------------------------------------------------- the expiry job
\* start(pool): one immediate runExpiryCheck, then one every 30 seconds
start ==
  /\ jobStarted' = TRUE
  /\ sweep' = [sweep EXCEPT !.check = @ + 1]
  /\ nextFire' = now + IntervalTicks

\* the setInterval callback
TimerFire ==
  /\ TimerDue
  /\ sweep.check + sweep.update < MaxInFlight
  /\ sweep' = [sweep EXCEPT !.check = @ + 1]
  /\ nextFire' = nextFire + IntervalTicks
  /\ UNCHANGED <<envVars, dbVars, server, jobStarted, rowsUpdated, sweepRuns, cleared,
                 logVars, reqVars>>

\* clearInterval(interval): the SIGTERM and SIGINT handlers start registers,
\* or the closure the other variant of start returns
stop ==
  /\ jobStarted
  /\ ~cleared
  /\ cleared' = TRUE
  /\ UNCHANGED <<envVars, dbVars, server, jobStarted, nextFire, sweep, rowsUpdated,
                 sweepRuns, logVars, reqVars>>

\* the WHERE clause without its status test
ExpiredAnyStatus(b, t) ==
  /\ b.expires_at # {}
  /\ \A e \in b.expires_at : e <= t

\* the WHERE clause without "expires_at IS NOT NULL", NULL taken as long ago
ExpiredOrNull(b, t) ==
  /\ b.status = "PENDING"
  /\ \A e \in b.expires_at : e <= t

\* the WHERE clause with status <> 'CONFIRMED' for status = 'PENDING'
ExpiredNotConfirmed(b, t) ==
  /\ b.status # "CONFIRMED"
  /\ b.expires_at # {}
  /\ \A e \in b.expires_at : e <= t

\* WHERE status = 'PENDING' AND expires_at IS NOT NULL AND expires_at <= NOW()
Expired(b, t) ==
  /\ b.status = "PENDING"
  /\ b.expires_at # {}
  /\ \A e \in b.expires_at : e <= t

\* an UPDATE that also clears the deadline of the rows it fails
ExpiryUpdateClearing(rows, t) ==
  { IF Expired(b, t)
    THEN [b EXCEPT !.status = "FAILED", !.updated_at = t, !.expires_at = {}]
    ELSE b : b \in rows }

\* UPDATE bookings SET status = 'FAILED', updated_at = NOW() WHERE ...
ExpiryUpdate(rows, t) ==
  { IF Expired(b, t) THEN [b EXCEPT !.status = "FAILED", !.updated_at = t] ELSE b
    : b \in rows }

\* error.code of a connection that cannot be made: refused, timed out, host
\* not found
ConnectivityCodes == {"ECONNREFUSED", "ETIMEDOUT", "ENOTFOUND"}

\* what a query of the job fails with while the store is away: a connection
\* that cannot be made, or the server ending the session (57P01)
SweepErrorCodes == ConnectivityCodes \cup {"57P01"}

\* a run that ended in its catch block with error.code = code
Failed(code, logged) ==
  [result |-> code, reported |-> logged, returned |-> {}]

\* the last two of the connectivity failures the job reported
Reports(code, logged) ==
  IF code \in ConnectivityCodes /\ logged
  THEN IF Len(connReports) < 2
       THEN Append(connReports, now)
       ELSE <<connReports[2], now>>
  ELSE connReports

\* a catch block that lets connectivity errors through
CaughtOther(code) == code \notin ConnectivityCodes

\* the catch block ends without throwing, whatever the error
Caught(code) == TRUE

\* !lastConnectionError || (now - lastConnectionError) > 60000
ThrottleOpen(t) == \A l \in lastConnectionError : t - l > ThrottleTicks

\* the catch block of runExpiryCheck: connection errors are logged when the
\* throttle is open, every other error is logged
Catch(code) ==
  /\ server' = IF Caught(code) THEN server ELSE "exited"
  /\ IF code \in {"ECONNREFUSED", "ETIMEDOUT", "ENOTFOUND"}
     THEN /\ outcome' = Failed(code, ThrottleOpen(now))
          /\ connReports' = Reports(code, ThrottleOpen(now))
          /\ lastConnectionError' = IF ThrottleOpen(now) THEN {now} ELSE lastConnectionError
     ELSE /\ outcome' = Failed(code, TRUE)
          /\ connReports' = Reports(code, TRUE)
          /\ lastConnectionError' = lastConnectionError

\* the catch block of the other runExpiryCheck: any error is logged when
\* the throttle is open, and while it is shut every error but ECONNREFUSED
CatchAlt(code) ==
  /\ server' = server
  /\ outcome' = Failed(code, ThrottleOpen(now) \/ code # "ECONNREFUSED")
  /\ connReports' = Reports(code, ThrottleOpen(now) \/ code # "ECONNREFUSED")
  /\ lastConnectionError' = IF ThrottleOpen(now) THEN {now} ELSE lastConnectionError

\* a run that goes on to the UPDATE without looking at the column check
ColumnAssumed == TRUE

\* columnCheck.rows.length > 0
ColumnFound == columnExists

\* the information_schema query fails: caught, the run ends
runExpiryCheck_CheckError(codes) ==
  /\ sweep.check > 0
  /\ ~dbUp
  /\ \E code \in codes : Catch(code)
  /\ sweep' = [sweep EXCEPT !.check = @ - 1]
  /\ UNCHANGED <<envVars, dbVars, jobStarted, nextFire, rowsUpdated, sweepRuns, cleared,
                 reqVars>>

\* columnCheck.rows.length === 0: warn and return
runExpiryCheck_NoColumn ==
  /\ sweep.check > 0
  /\ dbUp
  /\ ~ColumnFound
  /\ sweep' = [sweep EXCEPT !.check = @ - 1]
  /\ outcome' = [result |-> "skipped", reported |-> TRUE, returned |-> {}]
  /\ UNCHANGED <<envVars, dbVars, server, jobStarted, nextFire, rowsUpdated, sweepRuns,
                 cleared, lastConnectionError, connReports, reqVars>>

\* the column is there: go on to the UPDATE
runExpiryCheck_Check ==
  /\ sweep.check > 0
  /\ dbUp
  /\ ColumnFound
  /\ sweep' = [check |-> sweep.check - 1, update |-> sweep.update + 1]
  /\ UNCHANGED <<envVars, dbVars, server, jobStarted, nextFire, rowsUpdated, sweepRuns,
                 cleared, logVars, reqVars>>

\* the UPDATE fails: caught, the run ends
runExpiryCheck_UpdateError(codes) ==
  /\ sweep.update > 0
  /\ ~dbUp
  /\ \E code \in codes : Catch(code)
  /\ sweep' = [sweep EXCEPT !.update = @ - 1]
  /\ UNCHANGED <<envVars, dbVars, jobStarted, nextFire, rowsUpdated, sweepRuns, cleared,
                 reqVars>>

\* the UPDATE runs as one statement in its own transaction; the run logs
\* the count when it is positive and returns without a value.  Against a
\* table without the column the statement is rejected (42703)
runExpiryCheck_Update ==
  /\ sweep.update > 0
  /\ dbUp
  /\ sweep' = [sweep EXCEPT !.update = @ - 1]
  /\ IF columnExists
     THEN /\ bookings' = ExpiryUpdate(bookings, now)
          /\ rowsUpdated' = Cardinality({b \in bookings : Expired(b, now)})
          /\ sweepRuns' = IF sweepRuns < 2 THEN sweepRuns + 1 ELSE 2
          /\ outcome' = [result |-> "updated", reported |-> rowsUpdated' > 0, returned |-> {}]
          /\ UNCHANGED <<server, lastConnectionError, connReports>>
     ELSE /\ Catch("42703")
          /\ UNCHANGED <<bookings, rowsUpdated, sweepRuns>>
  /\ UNCHANGED <<envVars, columnExists, booking_slots, bookingSeq, jobStarted, nextFire,
                 cleared, reqVars>>

\* the same two failures in the other runExpiryCheck
runExpiryCheckAlt_CheckError ==
  /\ sweep.check > 0
  /\ ~dbUp
  /\ \E code \in SweepErrorCodes : CatchAlt(code)
  /\ sweep' = [sweep EXCEPT !.check = @ - 1]
  /\ UNCHANGED <<envVars, dbVars, jobStarted, nextFire, rowsUpdated, sweepRuns, cleared,
                 reqVars>>

runExpiryCheckAlt_UpdateError ==
  /\ sweep.update > 0
  /\ ~dbUp
  /\ \E code \in SweepErrorCodes : CatchAlt(code)
  /\ sweep' = [sweep EXCEPT !.update = @ - 1]
  /\ UNCHANGED <<envVars, dbVars, jobStarted, nextFire, rowsUpdated, sweepRuns, cleared,
                 reqVars>>

\* ------------------------------------------------------ server start-up
\* await pool.query('SELECT 1') fails: listen, the job is not started
startServer_NoDb ==
  /\ server = "boot"
  /\ ~dbUp
  /\ server' = "listening"
  /\ UNCHANGED <<envVars, dbVars, jobVars, reqVars>>

startServer_Connected ==
  /\ server = "boot"
  /\ dbUp
  /\ server' = "tables"
  /\ UNCHANGED <<envVars, dbVars, jobVars, reqVars>>

\* initializeDatabase, the table checks: with the store unreachable tableExists
\* answers false, executeSQL throws, and startServer's catch listens without the job
initializeDatabase_Tables ==
  /\ server = "tables"
  /\ server' = IF dbUp THEN "migrate" ELSE "listening"
  /\ UNCHANGED <<envVars, dbVars, jobVars, reqVars>>

\* runExpiresAtMigration (its errors are caught), then bookingExpiryJob.start(pool)
\* and app.listen
initializeDatabase_Migrate ==
  /\ server = "migrate"
  /\ IF dbUp /\ ~columnExists
     THEN /\ columnExists' = TRUE
          /\ bookings' = Backfill(bookings)
     ELSE UNCHANGED <<columnExists, bookings>>
  /\ start
  /\ server' = "listening"
  /\ UNCHANGED <<envVars, booking_slots, bookingSeq, rowsUpdated, sweepRuns, cleared,
                 logVars, reqVars>>

\* ------------------------------------------------------------ the claims
XHolders(s) == {q \in Requests : tx[q].xlock /\ req[q].slotId = s}
SHolders(s) == {q \in Requests : tx[q].slock /\ req[q].slotId = s}
\* an insert that does not wait for uncommitted rows of the unique index
OwnWritersIgnored(s) == {}

\* an insert that also waits for transactions holding the slot's row lock
OwnWritersOrLockers(s) ==
  {q \in Requests : (tx[q].own \/ tx[q].slock) /\ req[q].slotId = s}

\* open transactions holding an uncommitted booking_slots row for slot s
OwnWriters(s) == {q \in Requests : tx[q].own /\ req[q].slotId = s}

\* booking_slots without its UNIQUE (slot_id) constraint
SlotTakenNever(s) == FALSE

\* a constraint that allows one row in the whole table
SlotTakenAny(s) == booking_slots # {}

\* UNIQUE (slot_id) against the committed rows
SlotTaken(s) == \E o \in booking_slots : o.slot_id = s

\* an error path that sends no ROLLBACK
RolledNot(w) == w

\* await client.query('ROLLBACK'): one more ROLLBACK went out on the connection
Rolled(w) == [w EXCEPT !.rollbacks = @ + 1]

\* a finally block that keeps a connection it found broken
releaseUnlessBroken(t) == IF t.conn /\ ~t.broken THEN 1 ELSE 0

\* client.release() in the finally block, reached once a client was checked out
release(t) == IF t.conn THEN 1 ELSE 0

\* clients of the pool that are checked out
InUse == Cardinality({q \in Requests : tx[q].conn})

\* ROLLBACK (or the end of a transaction): writes and row locks are dropped
Closed(t) ==
  [t EXCEPT !.open = FALSE, !.xlock = FALSE, !.slock = FALSE, !.row = {}, !.own = FALSE]

\* a handler that finds no statusCode on any error
StatusOfUnknown(code) == 500

\* the status the error handlers give an error: its statusCode, or 500
StatusOf(code) == IF code = "409" THEN 409 ELSE 500

\* res.status(status).json(body); the finally block releases the client if
\* one was checked out
Finish(r, status, body, code) ==
  /\ resp' = [resp EXCEPT ![r] = [status |-> status, body |-> body, code |-> code]]
  /\ checkouts' = [checkouts EXCEPT ![r].back = @ + release(tx[r])]
  /\ tx' = [tx EXCEPT ![r] = NoTx]
  /\ pc' = [pc EXCEPT ![r] = "done"]

Goto(r, label) == pc' = [pc EXCEPT ![r] = label]

\* the code of a failing statement: the connection is gone, or the server
\* rejects the statement with sqlstate
ErrorCode(r, sqlstate) == IF tx[r].broken THEN "ECONNRESET" ELSE sqlstate

\* an error thrown to the catch block that issues the last ROLLBACK
Throw(r, code) ==
  /\ tx' = [tx EXCEPT ![r].err = code]
  /\ Goto(r, "rollbackOuter")

\* the JSON bookSlot builds from the confirmed row
BookSlotJson(rows) ==
  { [id |-> b.id, slot_id |-> b.slot_id, patient_name |-> b.patient_name,
     status |-> b.status, created_at |-> b.created_at, updated_at |-> b.updated_at]
    : b \in rows }

\* a request reaches its handler.  The createBooking controller validates
\* before it calls the service; bookSlot first awaits getClient()
Arrive(r, slotIds, names) ==
  /\ server = "listening"
  /\ pc[r] = "idle"
  /\ \E e \in {"bookSlot", "createBooking"}, s \in slotIds, n \in names :
       /\ req' = [req EXCEPT ![r] = [entry |-> e, slotId |-> s, name |-> n]]
       /\ IF e = "createBooking" /\ n = ""
          THEN /\ resp' = [resp EXCEPT ![r] = [status |-> 400, body |-> {}, code |-> "none"]]
               /\ pc' = [pc EXCEPT ![r] = "done"]
          ELSE /\ Goto(r, "getClient")
               /\ resp' = resp
  /\ UNCHANGED <<envVars, dbVars, server, jobVars, tx, checkouts, work>>

\* pool.connect() rejects.  createBooking's controller catches and calls
\* next(error); bookSlot's await is outside its try and Express 5 passes the
\* rejection to the error handler: 500 either way
getClient_Error(r) ==
  /\ pc[r] = "getClient"
  /\ ~dbUp
  /\ pc' = [pc EXCEPT ![r] = "done"]
  /\ resp' = [resp EXCEPT ![r] = [status |-> 500, body |-> {}, code |-> "ECONNREFUSED"]]
  /\ UNCHANGED <<envVars, dbVars, server, jobVars, req, tx, checkouts, work>>

\* pool.connect() found every client of the pool checked out for
\* connectionTimeoutMillis: it rejects, and the request is answered 500
getClient_Timeout(r) ==
  /\ pc[r] = "getClient"
  /\ dbUp
  /\ InUse >= poolMax
  /\ pc' = [pc EXCEPT ![r] = "done"]
  /\ resp' = [resp EXCEPT ![r] = [status |-> 500, body |-> {}, code |-> "timeout"]]
  /\ UNCHANGED <<envVars, dbVars, server, jobVars, req, tx, checkouts, work>>

\* a connection is checked out once the pool has one free; bookSlot
\* validates now (400, and the finally block releases), otherwise BEGIN is sent
getClient(r) ==
  /\ pc[r] = "getClient"
  /\ dbUp
  /\ InUse < poolMax
  /\ IF req[r].entry = "bookSlot" /\ req[r].name = ""
     THEN /\ resp' = [resp EXCEPT ![r] = [status |-> 400, body |-> {}, code |-> "none"]]
          /\ checkouts' = [checkouts EXCEPT ![r] = [out |-> @.out + 1, back |-> @.back + 1]]
          /\ pc' = [pc EXCEPT ![r] = "done"]
          /\ tx' = tx
     ELSE /\ tx' = [tx EXCEPT ![r] = [NoTx EXCEPT !.conn = TRUE]]
          /\ checkouts' = [checkouts EXCEPT ![r].out = @ + 1]
          /\ Goto(r, "begin")
          /\ resp' = resp
  /\ UNCHANGED <<envVars, dbVars, server, jobVars, req, work>>

\* BEGIN; NOW() is the start of the transaction from here on.  A failing
\* BEGIN is outside bookSlot's inner try (no ROLLBACK) and inside the
\* service's try (ROLLBACK)
Begin(r) ==
  /\ pc[r] = "begin"
  /\ IF tx[r].broken
     THEN IF req[r].entry = "bookSlot"
          THEN Finish(r, 500, {}, "ECONNRESET") /\ work' = work
          ELSE Throw(r, "ECONNRESET") /\ UNCHANGED <<resp, checkouts, work>>
     ELSE /\ tx' = [tx EXCEPT ![r].open = TRUE, ![r].ts = now]
          /\ Goto(r, IF req[r].entry = "bookSlot" THEN "select" ELSE "insertBooking")
          /\ work' = [work EXCEPT ![r].began = TRUE]
          /\ UNCHANGED <<resp, checkouts>>
  /\ UNCHANGED <<envVars, dbVars, server, jobVars, req>>

\* SELECT id FROM slots WHERE id = $1 FOR UPDATE: waits for the row lock
SelectForUpdate(r) ==
  /\ pc[r] = "select"
  /\ IF tx[r].broken
     THEN Throw(r, "ECONNRESET")
     ELSE IF req[r].slotId \notin Slots
     THEN Goto(r, "rollback404") /\ tx' = tx
     ELSE /\ XHolders(req[r].slotId) \cup SHolders(req[r].slotId) \subseteq {r}
          /\ tx' = [tx EXCEPT ![r].xlock = TRUE]
          /\ Goto(r, "insertBooking")
  /\ UNCHANGED <<envVars, dbVars, server, jobVars, req, resp, checkouts, work>>

\* INSERT INTO bookings (...) VALUES ($1, $2, 'PENDING', NOW() + INTERVAL '2 minutes').
\* Without the expires_at column the statement is rejected (42703).  The
\* foreign key on slot_id takes a key-share lock on the slots row, or rejects
\* the row (23503) after its id was drawn
InsertBooking(r) ==
  /\ pc[r] = "insertBooking"
  /\ IF tx[r].broken \/ ~columnExists
     THEN Throw(r, ErrorCode(r, "42703")) /\ bookingSeq' = bookingSeq
     ELSE IF req[r].slotId \notin Slots
     THEN Throw(r, "23503") /\ bookingSeq' = bookingSeq + 1
     ELSE /\ XHolders(req[r].slotId) \subseteq {r}
          /\ tx' = [tx EXCEPT ![r].slock = TRUE,
                              ![r].row = {Row(bookingSeq, req[r].slotId, req[r].name, "PENDING",
                                              tx[r].ts, tx[r].ts, {tx[r].ts + GraceTicks})}]
          /\ bookingSeq' = bookingSeq + 1
          /\ Goto(r, "insertSlot")
  /\ UNCHANGED <<envVars, columnExists, bookings, booking_slots, server, jobVars, req, resp,
                 checkouts, work>>

\* an error other than 23505 after the bookings insert: bookSlot rolls back in
\* the inner catch and rethrows, the service rethrows to its outer catch
ThrowInner(r, code) ==
  IF req[r].entry = "bookSlot"
  THEN /\ tx' = [tx EXCEPT ![r].err = code]
       /\ Goto(r, "rollbackInner")
  ELSE Throw(r, code)

\* INSERT INTO booking_slots (booking_id, slot_id): UNIQUE (slot_id) rejects a
\* second committed row (23505) and waits for an uncommitted one
InsertBookingSlot(r) ==
  /\ pc[r] = "insertSlot"
  /\ IF tx[r].broken
     THEN ThrowInner(r, "ECONNRESET")
     ELSE /\ OwnWriters(req[r].slotId) \subseteq {r}
          /\ IF SlotTaken(req[r].slotId)
             THEN Goto(r, "rollback409") /\ tx' = [tx EXCEPT ![r].err = "23505"]
             ELSE /\ tx' = [tx EXCEPT ![r].own = TRUE]
                  /\ Goto(r, "update")
  /\ UNCHANGED <<envVars, dbVars, server, jobVars, req, resp, checkouts, work>>

\* an UPDATE that matches no row
ConfirmedNoRow(rows, t) == rows

\* an UPDATE that sets updated_at only
ConfirmedKeepsStatus(rows, t) == { [b EXCEPT !.updated_at = t] : b \in rows }

\* an UPDATE with "AND expires_at > NOW()" added to its WHERE clause, NOW()
\* read from the clock
ConfirmedInTime(rows, t) ==
  { IF \A e \in b.expires_at : e > now
    THEN [b EXCEPT !.status = "CONFIRMED", !.updated_at = t]
    ELSE b : b \in rows }

\* UPDATE bookings SET status = 'CONFIRMED', updated_at = NOW() WHERE id = $2
Confirmed(rows, t) == { [b EXCEPT !.status = "CONFIRMED", !.updated_at = t] : b \in rows }

UpdateConfirmed(r) ==
  /\ pc[r] = "update"
  /\ IF tx[r].broken
     THEN ThrowInner(r, "ECONNRESET")
     ELSE /\ tx' = [tx EXCEPT ![r].row = Confirmed(tx[r].row, tx[r].ts)]
          /\ Goto(r, "commit")
  /\ UNCHANGED <<envVars, dbVars, server, jobVars, req, resp, checkouts, work>>

\* COMMIT: the transaction's rows become visible together; 201
Commit(r) ==
  /\ pc[r] = "commit"
  /\ IF tx[r].broken
     THEN /\ ThrowInner(r, "ECONNRESET")
          /\ UNCHANGED <<bookings, booking_slots, resp, checkouts>>
     ELSE /\ bookings' = bookings \cup tx[r].row
          /\ booking_slots' = booking_slots \cup
               (IF tx[r].own THEN {Own(b.id, req[r].slotId) : b \in tx[r].row} ELSE {})
          /\ Finish(r, 201, IF req[r].entry = "bookSlot"
                            THEN BookSlotJson(tx[r].row) ELSE tx[r].row, "none")
  /\ UNCHANGED <<envVars, columnExists, bookingSeq, server, jobVars, req, work>>

\* bookSlot: ROLLBACK, then 404 'Slot not found'
Rollback404(r) ==
  /\ pc[r] = "rollback404"
  /\ work' = [work EXCEPT ![r] = Rolled(@)]
  /\ IF tx[r].broken
     THEN Throw(r, "ECONNRESET") /\ UNCHANGED <<resp, checkouts>>
     ELSE Finish(r, 404, {}, "none")
  /\ UNCHANGED <<envVars, dbVars, server, jobVars, req>>

\* the 23505 branch ending its transaction with COMMIT
Rollback409Commit(r) ==
  /\ pc[r] = "rollback409"
  /\ work' = [work EXCEPT ![r] = Rolled(@)]
  /\ bookings' = bookings \cup tx[r].row
  /\ IF req[r].entry = "bookSlot"
     THEN Finish(r, 409, {}, "23505")
     ELSE /\ tx' = [tx EXCEPT ![r] = [Closed(tx[r]) EXCEPT !.err = "409"]]
          /\ Goto(r, "rollbackOuter")
          /\ UNCHANGED <<resp, checkouts>>
  /\ UNCHANGED <<envVars, columnExists, booking_slots, bookingSeq, server, jobVars, req>>

\* the 23505 branch: ROLLBACK, then bookSlot answers 409 and the service
\* throws its 409 error through the outer catch
Rollback409(r) ==
  /\ pc[r] = "rollback409"
  /\ work' = [work EXCEPT ![r] = Rolled(@)]
  /\ IF tx[r].broken
     THEN Throw(r, "ECONNRESET") /\ UNCHANGED <<resp, checkouts>>
     ELSE IF req[r].entry = "bookSlot"
     THEN Finish(r, 409, {}, "23505")
     ELSE /\ tx' = [tx EXCEPT ![r] = [Closed(tx[r]) EXCEPT !.err = "409"]]
          /\ Goto(r, "rollbackOuter")
          /\ UNCHANGED <<resp, checkouts>>
  /\ UNCHANGED <<envVars, dbVars, server, jobVars, req>>

\* bookSlot's inner catch: ROLLBACK and rethrow (a failing ROLLBACK throws too)
RollbackInner(r) ==
  /\ pc[r] = "rollbackInner"
  /\ work' = [work EXCEPT ![r] = Rolled(@)]
  /\ tx' = [tx EXCEPT ![r] = IF tx[r].broken
                             THEN [tx[r] EXCEPT !.err = "ECONNRESET"]
                             ELSE Closed(tx[r])]
  /\ Goto(r, "rollbackOuter")
  /\ UNCHANGED <<envVars, dbVars, server, jobVars, req, resp, checkouts>>

\* the last ROLLBACK.  The service ignores its failure and rethrows the
\* error it caught; bookSlot throws the ROLLBACK's own error when it fails.
\* The error goes on to the error handler unless it carries a statusCode
RollbackOuter(r) ==
  /\ pc[r] = "rollbackOuter"
  /\ work' = [work EXCEPT ![r] = Rolled(@)]
  /\ IF req[r].entry = "bookSlot" /\ tx[r].broken
     THEN Finish(r, 500, {}, "ECONNRESET")
     ELSE Finish(r, StatusOf(tx[r].err), {}, tx[r].err)
  /\ UNCHANGED <<envVars, dbVars, server, jobVars, req>>

Claim(r) ==
  \/ getClient_Error(r)
  \/ getClient(r)
  \/ Begin(r)
  \/ SelectForUpdate(r)
  \/ InsertBooking(r)
  \/ InsertBookingSlot(r)
  \/ UpdateConfirmed(r)
  \/ Commit(r)
  \/ Rollback404(r)
  \/ Rollback409(r)
  \/ RollbackInner(r)
  \/ RollbackOuter(r)

\* one run of runExpiryCheck, from its first await to its end
Sweep(codes) ==
  \/ runExpiryCheck_CheckError(codes)
  \/ runExpiryCheck_Check
  \/ runExpiryCheck_UpdateError(codes)
  \/ runExpiryCheck_Update

Job(codes) ==
  \/ TimerFire
  \/ runExpiryCheck_NoColumn
  \/ Sweep(codes)

Boot ==
  \/ startServer_NoDb
  \/ startServer_Connected
  \/ initializeDatabase_Tables
  \/ initializeDatabase_Migrate

\* the whole system over MaxTime, serving one request with any input, the
\* store refusing connections while it is away
Next ==
  \/ Arrive(1, SlotIds, {"", NameOf(1)})
  \/ Claim(1)
  \/ Tick(MaxTime)
  \/ DbDown
  \/ DbUp
  \/ runMigration
  \/ Job({"ECONNREFUSED"})
  \/ Boot

Spec == Init /\ [][Next]_vars

\* NumReq concurrent requests with a claimant name and the start-up run of the
\* expiry job, in a process that started at time 1 against a reachable,
\* migrated store
ClaimInit == InitWith({TRUE}, {TRUE}, 1) /\ poolMax = PoolMax

ClaimNext ==
  \/ \E r \in Requests : Arrive(r, SlotIds, {NameOf(r)})
  \/ \E r \in Requests : getClient(r)
  \/ \E r \in Requests : Begin(r)
  \/ \E r \in Requests : SelectForUpdate(r)
  \/ \E r \in Requests : InsertBooking(r)
  \/ \E r \in Requests : InsertBookingSlot(r)
  \/ \E r \in Requests : UpdateConfirmed(r)
  \/ \E r \in Requests : Commit(r)
  \/ \E r \in Requests : Rollback404(r)
  \/ \E r \in Requests : Rollback409(r)
  \/ \E r \in Requests : RollbackOuter(r)
  \/ runExpiryCheck_Check
  \/ runExpiryCheck_Update
  \/ startServer_Connected
  \/ initializeDatabase_Tables
  \/ initializeDatabase_Migrate

ClaimSpec == ClaimInit /\ [][ClaimNext]_vars

\* two concurrent requests while connections are lost and the store goes
\* down and comes back, served by a process that started at time 1
FaultRequests == {1, 2}

FaultInit == InitWith(BOOLEAN, {TRUE}, 1) /\ poolMax = PoolMax

FaultNext ==
  \/ \E r \in FaultRequests : Arrive(r, SlotIds, {NameOf(r)})
  \/ \E r \in FaultRequests : Claim(r)
  \/ \E r \in FaultRequests : ConnLost(r)
  \/ DbDown
  \/ DbUp
  \/ Sweep({"ECONNREFUSED"})
  \/ Boot

FaultSpec == FaultInit /\ [][FaultNext]_vars

\* the server in operation: the clock runs to MaxTime and stays there, the
\* timer keeps firing, storage comes back after every loss, and requests
\* without a claimant name keep arriving
TimerFireOn ==
  /\ jobStarted
  /\ ~cleared
  /\ server # "exited"
  /\ now = MaxTime
  /\ nextFire > MaxTime
  /\ sweep.check + sweep.update < MaxInFlight
  /\ sweep' = [sweep EXCEPT !.check = @ + 1]
  /\ UNCHANGED <<envVars, dbVars, server, jobStarted, nextFire, rowsUpdated, sweepRuns,
                 cleared, logVars, reqVars>>

\* the response was delivered; the next request of this client may arrive
NextRequest(r) ==
  /\ pc[r] = "done"
  /\ pc' = [pc EXCEPT ![r] = "idle"]
  /\ req' = [req EXCEPT ![r] = [entry |-> "none", slotId |-> 1, name |-> ""]]
  /\ resp' = [resp EXCEPT ![r] = [status |-> 0, body |-> {}, code |-> "none"]]
  /\ checkouts' = [checkouts EXCEPT ![r] = [out |-> 0, back |-> 0]]
  /\ work' = [work EXCEPT ![r] = NoWork]
  /\ UNCHANGED <<envVars, dbVars, server, jobVars, tx>>

LiveNext ==
  \/ Arrive(1, {1}, {""})
  \/ getClient_Error(1)
  \/ getClient(1)
  \/ NextRequest(1)
  \/ Tick(MaxTime)
  \/ DbDown
  \/ DbUp
  \/ TimerFireOn
  \/ Job(SweepErrorCodes)
  \/ Boot

LiveSpec ==
  /\ Init
  /\ [][LiveNext]_vars
  /\ WF_vars(Tick(MaxTime))
  /\ WF_vars(DbUp)
  /\ WF_vars(TimerFire)
  /\ WF_vars(TimerFireOn)
  /\ WF_vars(runExpiryCheck_NoColumn)
  /\ WF_vars(Sweep(SweepErrorCodes))
  /\ WF_vars(Boot)
  /\ WF_vars(Arrive(1, {1}, {""}))
  /\ WF_vars(getClient_Error(1) \/ getClient(1))
  /\ WF_vars(NextRequest(1))

\* the expiry job alone over MaxJobTime: start-up, the timer, its
\* cancellation, the migration, the store going away with any error
JobNext ==
  \/ Tick(MaxJobTime)
  \/ DbDown
  \/ DbUp
  \/ runMigration
  \/ TimerFire
  \/ stop
  \/ runExpiryCheck_NoColumn
  \/ Sweep(SweepErrorCodes)
  \/ Boot

JobSpec == Init /\ [][JobNext]_vars

\* the same with the job of the other bookingExpiryJob.js
AltJobNext ==
  \/ Tick(MaxJobTime)
  \/ DbDown
  \/ DbUp
  \/ runMigration
  \/ TimerFire
  \/ stop
  \/ runExpiryCheck_NoColumn
  \/ runExpiryCheckAlt_CheckError
  \/ runExpiryCheck_Check
  \/ runExpiryCheckAlt_UpdateError
  \/ runExpiryCheck_Update
  \/ Boot

AltJobSpec == Init /\ [][AltJobNext]_vars

\* two concurrent requests for slot 1 against a reachable, migrated store
\* while the clock runs to MaxJobTime and the job sweeps: statements may take
\* any time
SlowInit == InitWith({TRUE}, {TRUE}, 0) /\ poolMax = PoolMax

SlowNext ==
  \/ \E r \in FaultRequests : Arrive(r, {1}, {NameOf(r)})
  \/ \E r \in FaultRequests : getClient(r)
  \/ \E r \in FaultRequests : Begin(r)
  \/ \E r \in FaultRequests : SelectForUpdate(r)
  \/ \E r \in FaultRequests : InsertBooking(r)
  \/ \E r \in FaultRequests : InsertBookingSlot(r)
  \/ \E r \in FaultRequests : UpdateConfirmed(r)
  \/ \E r \in FaultRequests : Commit(r)
  \/ \E r \in FaultRequests : Rollback409(r)
  \/ \E r \in FaultRequests : RollbackOuter(r)
  \/ Tick(MaxJobTime)
  \/ TimerFire
  \/ runExpiryCheck_Check
  \/ runExpiryCheck_Update
  \/ startServer_Connected
  \/ initializeDatabase_Tables
  \/ initializeDatabase_Migrate

SlowSpec == SlowInit /\ [][SlowNext]_vars

\* the steps of request r while storage answers every statement
ClaimStep(r) ==
  \/ getClient_Timeout(r)
  \/ getClient(r)
  \/ Begin(r)
  \/ SelectForUpdate(r)
  \/ InsertBooking(r)
  \/ InsertBookingSlot(r)
  \/ UpdateConfirmed(r)
  \/ Commit(r)
  \/ Rollback404(r)
  \/ Rollback409(r)
  \/ RollbackOuter(r)

BootStep ==
  \/ startServer_Connected
  \/ initializeDatabase_Tables
  \/ initializeDatabase_Migrate

\* NumReq concurrent requests for slot 1 or the missing slot 3, or without a
\* name, over a pool of any size up to NumReq: every request goes on when its
\* statement can, the store answering every statement
ClaimLiveInit == InitWith({TRUE}, {TRUE}, 1) /\ poolMax \in 1..NumReq

ClaimLiveNext ==
  \/ \E r \in Requests : Arrive(r, {1, 3}, {NameOf(r)})
  \/ \E r \in Requests : Arrive(r, {1}, {""})
  \/ \E r \in Requests : ClaimStep(r)
  \/ BootStep

ClaimLiveSpec ==
  /\ ClaimLiveInit
  /\ [][ClaimLiveNext]_vars
  /\ \A r \in Requests : WF_vars(ClaimStep(r))
  /\ WF_vars(BootStep)

\* ----------------------------------------------------------- properties
ClaimantNames == {NameOf(r) : r \in Requests}
OwnsOf(s) == {o \in booking_slots : o.slot_id = s}
Winners == {r \in Requests : resp[r].status = 201}
AllDoneOn(s) == \A r \in Requests : pc[r] = "done" /\ req[r].slotId = s
\* slot s is owned by a booking that none of the requests made
ClaimedBefore(s) ==
  \E o \in OwnsOf(s), b \in bookings : b.id = o.booking_id /\ b.patient_name \notin ClaimantNames
Unreachable(r) == resp[r].code \in {"ECONNREFUSED", "ECONNRESET"}
\* the row is PENDING with a deadline that is not NULL and has passed
Due(b) == b.status = "PENDING" /\ \E e \in b.expires_at : e <= now
\* this step is the UPDATE of a run of the expiry job
SweepStep == sweep'.update < sweep.update /\ dbUp

\* C1: when all of the NumReq concurrent requests claimed the same existing
\* slot, which nobody owned before, and storage answered every one of them,
\* exactly one got 201 with a CONFIRMED reservation, every other one got
\* 409, and the slot has exactly one booking_slots row.
C1_ExactlyOneWinner ==
  \A s \in Slots :
    (AllDoneOn(s) /\ ~ClaimedBefore(s) /\ \A r \in Requests : ~Unreachable(r))
    => /\ Cardinality(Winners) = 1
       /\ \A r \in Winners : \A j \in resp[r].body : j.status = "CONFIRMED"
       /\ \A r \in Requests \ Winners : resp[r].status = 409
       /\ Cardinality(OwnsOf(s)) = 1

\* C1 witness: the storm is over, with a winner and a loser of either entry point
C1_StormOver ==
  /\ AllDoneOn(1)
  /\ ~ClaimedBefore(1)
  /\ \E r \in Requests : resp[r].status = 201
  /\ \E r \in Requests : resp[r].status = 409 /\ req[r].entry = "bookSlot"
  /\ \E r \in Requests : req[r].entry = "createBooking"

\* C2: in every committed state, whatever claims, sweeps, lost connections
\* and outages came before, a slot has at most one booking_slots row.
C2_AtMostOneOwner ==
  \A s \in SlotIds : Cardinality(OwnsOf(s)) <= 1

\* C2 witness: a claim aborted by a lost connection, and the other claim of
\* the same slot won
C2_AbortedThenWon ==
  \E r, q \in Requests :
    /\ resp[r].code = "ECONNRESET"
    /\ resp[q].status = 201
    /\ req[r].slotId = req[q].slotId
    /\ Cardinality(OwnsOf(req[q].slotId)) = 1

\* C3: a claim answered 409 has no row in bookings nor in booking_slots, and
\* once all requests claimed one slot the bookings rows they left for it are
\* as many as the winners.
C3_NoTraceOnLoss ==
  /\ \A r \in Requests :
       resp[r].status = 409
       => /\ ~\E b \in bookings : b.patient_name = req[r].name
          /\ ~\E o \in booking_slots, b \in bookings :
                 o.booking_id = b.id /\ b.patient_name = req[r].name
  /\ \A s \in Slots :
       AllDoneOn(s)
       => Cardinality({b \in bookings : b.slot_id = s /\ b.patient_name \in ClaimantNames})
            = Cardinality(Winners)

\* C3 witness: the service lost the race for a slot another request won
C3_LostRace ==
  \E r, q \in Requests :
    /\ resp[r].status = 409
    /\ req[r].entry = "createBooking"
    /\ resp[q].status = 201
    /\ req[q].slotId = req[r].slotId

\* C4: a CONFIRMED or FAILED row of bookings has the same status after every
\* step (claim, sweep, migration), also when its expires_at has passed.
C4_TerminalStays ==
  [][\A b \in bookings :
       b.status \in {"CONFIRMED", "FAILED"}
       => \E c \in bookings' : c.id = b.id /\ c.status = b.status]_vars

\* C4 witness: a sweep has failed rows while a CONFIRMED row was past its deadline
C4_ConfirmedPastDeadline ==
  /\ rowsUpdated > 0
  /\ \E b \in bookings : b.status = "CONFIRMED" /\ \E e \in b.expires_at : e <= now

\* C5: a claim with a claimant name for a slot id that has no slots row is
\* answered 404 by either entry point, unless storage was unreachable or
\* unmigrated, and no row refers to that slot id.
C5_NotFound ==
  \A r \in Requests :
    (/\ pc[r] = "done"
     /\ req[r].slotId \notin Slots
     /\ req[r].name # ""
     /\ ~Unreachable(r)
     /\ resp[r].code # "42703")
    => /\ resp[r].status = 404
       /\ ~\E b \in bookings : b.slot_id = req[r].slotId
       /\ OwnsOf(req[r].slotId) = {}

\* C6: a claim without a claimant name takes no connection from the pool and
\* is answered 400.
C6_ValidationFirst ==
  \A r \in Requests :
    (req[r].entry # "none" /\ req[r].name = "")
    => /\ checkouts[r].out = 0
       /\ pc[r] = "done" => resp[r].status = 400

\* C7: the step that answers 201 adds exactly one row to bookings, CONFIRMED
\* and carrying the request's slot and claimant, and exactly one row to
\* booking_slots binding that booking to the slot, leaves all other rows as
\* they were, and the response carries that reservation.
C7_WinnerWrites ==
  [][\A r \in Requests :
       (resp[r].status = 0 /\ resp'[r].status = 201)
       => \E b \in bookings' \ bookings :
            /\ bookings' = bookings \cup {b}
            /\ \A c \in bookings : c.id # b.id
            /\ b.slot_id = req[r].slotId
            /\ b.patient_name = req[r].name
            /\ b.status = "CONFIRMED"
            /\ Own(b.id, req[r].slotId) \notin booking_slots
            /\ booking_slots' = booking_slots \cup {Own(b.id, req[r].slotId)}
            /\ resp'[r].body # {}
            /\ \A j \in resp'[r].body :
                 /\ j.id = b.id
                 /\ j.slot_id = b.slot_id
                 /\ j.patient_name = b.patient_name
                 /\ j.status = "CONFIRMED"]_vars

\* C7 witness: two claims succeeded, one by each entry point
C7_TwoWinners ==
  \E r, q \in Requests :
    /\ resp[r].status = 201 /\ req[r].entry = "bookSlot"
    /\ resp[q].status = 201 /\ req[q].entry = "createBooking"

\* C8: the UPDATE of a sweep sets to FAILED, with updated_at = now, exactly
\* the rows that are PENDING with a deadline that is not NULL and <= now, and
\* leaves every other row (deadline ahead or NULL, or not PENDING) as it was.
C8_SweepExact ==
  [][SweepStep
     => /\ \A b \in bookings :
             IF Due(b)
             THEN [b EXCEPT !.status = "FAILED", !.updated_at = now] \in bookings'
             ELSE b \in bookings'
        /\ Cardinality(bookings') = Cardinality(bookings)]_vars

\* C8 witness: a sweep failed a row and left a PENDING row without deadline
C8_SweptSome ==
  /\ \E b \in bookings : b.status = "FAILED" /\ b.updated_at >= 0
  /\ \E b \in bookings : b.status = "PENDING" /\ b.expires_at = {}
  /\ \E b \in bookings : b.status = "CONFIRMED"

C10_EventuallySwept ==
  \A id \in 1..4 :
    (\E b \in bookings : b.id = id /\ Due(b))
      ~> (\E b \in bookings : b.id = id /\ b.status = "FAILED")

\* this step ends a run of the expiry job in its catch block
SweepFailStep == sweep'.check + sweep'.update < sweep.check + sweep.update /\ ~dbUp
\* runs of runExpiryCheck that have started and not finished
InFlight == sweep.check + sweep.update
\* the last finished run of the job failed, with an error that is not one
\* of a connection that cannot be made
OtherFailure == outcome.result \notin ConnectivityCodes \cup {"none", "skipped", "updated"}

\* C11: a run of runExpiryCheck that completed its UPDATE returned to its
\* caller the number of rows that UPDATE set to FAILED (0 when there was none).
C11_ReturnsCount ==
  outcome.result = "updated" => outcome.returned = {rowsUpdated}

C13_ReportsThrottled ==
  /\ Len(connReports) = 2 => connReports[2] - connReports[1] > ThrottleTicks
  /\ OtherFailure => outcome.reported

\* C14: while bookings has no expires_at column, a run of the job that
\* gets the answer of its column check ends there: no UPDATE is sent, no row
\* changes, the run ends as skipped without an error, the process and the
\* timer go on, and no run ever fails on the missing column.
C14_NoColumnSkips ==
  [][/\ (~columnExists /\ dbUp /\ sweep'.check < sweep.check)
          => /\ sweep'.update = sweep.update
             /\ bookings' = bookings
             /\ outcome'.result = "skipped"
             /\ server' = server
             /\ nextFire' = nextFire
     /\ outcome'.result # "42703"]_vars

\* C14 witness: a run was skipped on a store without the column that holds rows
C14_Skipped ==
  /\ ~columnExists
  /\ outcome.result = "skipped"
  /\ InFlight = 0
  /\ \E b \in bookings : b.status = "PENDING"

\* C15: a request checks out at most one connection and never returns more
\* than it took; it holds a connection exactly while one is checked out and
\* not returned; and once it is answered, whatever the exit path, the
\* connection is back.
C15_ReleasedOnce ==
  \A r \in Requests :
    /\ checkouts[r].out <= 1
    /\ checkouts[r].back <= checkouts[r].out
    /\ tx[r].conn <=> checkouts[r].out = checkouts[r].back + 1
    /\ pc[r] = "done" => checkouts[r].back = checkouts[r].out

\* C15 witness: one request ended in 500 after its ROLLBACKs failed on a lost
\* connection, another in 409, and both connections are back
C15_AllBack ==
  \E r, q \in Requests :
    /\ resp[r].code = "ECONNRESET"
    /\ work[r].rollbacks = 2
    /\ checkouts[r] = [out |-> 1, back |-> 1]
    /\ resp[q].status = 409
    /\ checkouts[q] = [out |-> 1, back |-> 1]

\* C16: a request whose BEGIN went through and that was answered 409 or 500
\* sent a ROLLBACK on its connection before the answer; and every bookings
\* row carrying the name of a request is the CONFIRMED row, with its
\* booking_slots row, of a request of that name and slot answered 201.
C16_RollbackBeforeError ==
  /\ \A r \in Requests :
       (pc[r] = "done" /\ work[r].began /\ resp[r].status \in {409, 500})
       => work[r].rollbacks >= 1
  /\ \A b \in bookings :
       b.patient_name \in ClaimantNames
       => /\ b.status = "CONFIRMED"
          /\ Own(b.id, b.slot_id) \in booking_slots
          /\ \E r \in Requests :
               /\ resp[r].status = 201
               /\ req[r].name = b.patient_name
               /\ req[r].slotId = b.slot_id

\* C16 witness: the service lost the race (ROLLBACK in both catch blocks) and
\* the other request lost its connection after its bookings insert
C16_RolledBack ==
  \E r, q \in Requests :
    /\ resp[r].status = 409
    /\ req[r].entry = "createBooking"
    /\ work[r].rollbacks = 2
    /\ resp[q].status = 500
    /\ resp[q].code = "ECONNRESET"
    /\ work[q].began
    /\ work[q].rollbacks >= 1
    /\ bookingSeq > 2

\* C17: no step removes or changes a booking_slots row; the UPDATE of a sweep
\* leaves booking_slots as it is and, of every bookings row, the id, slot,
\* claimant, creation time and deadline.
C17_OwnershipStays ==
  [][/\ booking_slots \subseteq booking_slots'
     /\ SweepStep
        => /\ booking_slots' = booking_slots
           /\ Cardinality(bookings') = Cardinality(bookings)
           /\ \A b \in bookings : \E c \in bookings' :
                /\ c.id = b.id
                /\ c.slot_id = b.slot_id
                /\ c.patient_name = b.patient_name
                /\ c.created_at = b.created_at
                /\ c.expires_at = b.expires_at]_vars

\* C17 witness: a request was granted its slot, and a sweep after that
\* failed a row while the ownership stayed
C17_OwnedThroughSweep ==
  \E b, c \in bookings :
    /\ c.patient_name = req[1].name
    /\ c.status = "CONFIRMED"
    /\ Own(c.id, c.slot_id) \in booking_slots
    /\ b.status = "FAILED"
    /\ b.updated_at > c.created_at

\* C18: once clearInterval was called on the job's timer, no step starts a
\* run of runExpiryCheck, and the timer stays cleared.
C18_NoTickAfterStop ==
  [][cleared => (cleared' /\ sweep'.check + sweep'.update <= sweep.check + sweep.update)]_vars

\* C18 witness: the timer was cleared, its next firing time has passed, and
\* no run is in flight
C18_StoppedAndQuiet ==
  /\ cleared
  /\ now > nextFire
  /\ InFlight = 0

\* C19: at most one run of runExpiryCheck is in flight at any time.
C19_NeverStacked ==
  InFlight <= 1

\* C20: the UPDATE of a sweep turns a PENDING row into FAILED only if there
\* is no booking_slots row for the slot of that row.
C20_FailedOnlyUnowned ==
  [][SweepStep
     => \A b \in bookings :
          (b.status = "PENDING" /\ \E c \in bookings' : c.id = b.id /\ c.status = "FAILED")
          => OwnsOf(b.slot_id) = {}]_vars

\* the statement request r has sent waits for a lock another transaction holds
Blocked(r) ==
  /\ ~tx[r].broken
  /\ \/ pc[r] = "select" /\ req[r].slotId \in Slots
          /\ ~(XHolders(req[r].slotId) \cup SHolders(req[r].slotId) \subseteq {r})
     \/ pc[r] = "insertBooking" /\ columnExists /\ req[r].slotId \in Slots
          /\ ~(XHolders(req[r].slotId) \subseteq {r})
     \/ pc[r] = "insertSlot" /\ ~(OwnWriters(req[r].slotId) \subseteq {r})

\* C21: a request that waits for the slot's row lock, or for the uncommitted
\* booking_slots row of another transaction, is in a transaction that began no
\* longer ago than the timeout: the wait is cut off by then.
C21_BoundedWait ==
  \A r \in Requests : Blocked(r) => now - tx[r].ts <= ConnectTimeoutTicks

ClaimsOn(s) == {r \in Requests : req[r].entry # "none" /\ req[r].slotId = s}
\* every request was answered by the store, for a slot that exists
AllAnswered ==
  \A r \in Requests : pc[r] = "done" /\ req[r].slotId \in Slots /\ ~Unreachable(r)

\* C22: once every request was answered for an existing slot, whichever
\* entry point each one used, a slot owned before gave 409 to all its
\* requests, every other claimed slot gave 201 to exactly one and 409 to the
\* rest, and the slot's rows are one booking_slots row and one CONFIRMED
\* bookings row of the winner.
C22_VariantsAgree ==
  AllAnswered
  => \A s \in Slots :
       /\ \A r \in ClaimsOn(s) : resp[r].status \in {201, 409}
       /\ Cardinality(ClaimsOn(s) \cap Winners)
            = IF ClaimedBefore(s) \/ ClaimsOn(s) = {} THEN 0 ELSE 1
       /\ Cardinality(OwnsOf(s)) = IF ClaimedBefore(s) \/ ClaimsOn(s) # {} THEN 1 ELSE 0
       /\ \A r \in ClaimsOn(s) :
            Cardinality({b \in bookings : b.patient_name = req[r].name /\ b.slot_id = s
                                            /\ b.status = "CONFIRMED"})
              = IF r \in Winners THEN 1 ELSE 0
       /\ \A r \in ClaimsOn(s) : ~\E b \in bookings :
            b.patient_name = req[r].name /\ b.status # "CONFIRMED"

\* C22 witness: on one slot bookSlot won and the service lost
C22_MixedStorm ==
  \E r, q \in Requests :
    /\ AllAnswered
    /\ req[r].slotId = req[q].slotId
    /\ req[r].entry = "bookSlot" /\ resp[r].status = 201
    /\ req[q].entry = "createBooking" /\ resp[q].status = 409

\* C23: every deadline in bookings is the row's creation time plus two
\* minutes, every row written by a request has one, after the column is added
\* no PENDING row is without one, and a sweep fails no row before its
\* creation time plus two minutes.
C23_DeadlineIsGrace ==
  [][/\ \A b \in bookings' : b.expires_at \in {{}, {b.created_at + GraceTicks}}
     /\ \A b \in bookings' : b.patient_name \in ClaimantNames => b.expires_at # {}
     /\ (~columnExists /\ columnExists')
          => \A b \in bookings' : b.status = "PENDING" => b.expires_at # {}
     /\ SweepStep
          => \A b \in bookings :
               (b.status = "PENDING" /\ \E c \in bookings' : c.id = b.id /\ c.status = "FAILED")
               => now >= b.created_at + GraceTicks]_vars

\* C23 witness: a row the migration gave its deadline was failed by a sweep,
\* beside the row of a request
C23_BackfilledThenSwept ==
  /\ \E b \in bookings :
       b.patient_name = "Legacy Two" /\ b.status = "FAILED" /\ b.expires_at # {}
  /\ \E c \in bookings : c.patient_name \in ClaimantNames /\ c.expires_at # {}

\* C24: while bookings has no expires_at column, a run of the job that ends
\* skipped right after a run that ended skipped and logged the absence does
\* not log it again.
C24_AbsenceLoggedOnce ==
  [][(/\ ~columnExists
      /\ dbUp
      /\ sweep'.check < sweep.check
      /\ outcome.result = "skipped"
      /\ outcome.reported)
     => ~outcome'.reported]_vars

\* C25: a bookings row is CONFIRMED exactly when booking_slots binds it to its
\* own slot, and every booking_slots row names a CONFIRMED bookings row of
\* the same slot.
C25_ConfirmedIffOwned ==
  /\ \A b \in bookings : b.status = "CONFIRMED" <=> Own(b.id, b.slot_id) \in booking_slots
  /\ \A o \in booking_slots : \E b \in bookings :
       b.id = o.booking_id /\ b.slot_id = o.slot_id /\ b.status = "CONFIRMED"

\* C25 witness: a request was confirmed, another lost its connection, and a
\* sweep failed rows
C25_ConfirmedAmongFailed ==
  \E r, q \in Requests :
    /\ resp[r].status = 201
    /\ resp[q].code = "ECONNRESET"
    /\ rowsUpdated > 0
    /\ \E b \in bookings : b.status = "FAILED" /\ b.updated_at >= 0

\* C28: when every request was answered for an existing slot nobody owned
\* before and no two requests claimed the same slot, every request got 201;
\* and a request is answered 409 only if its own slot has a booking_slots row.
C28_SlotsIndependent ==
  /\ (/\ AllAnswered
      /\ \A r \in Requests : ~ClaimedBefore(req[r].slotId)
      /\ \A r, q \in Requests : r # q => req[r].slotId # req[q].slotId)
     => \A r \in Requests : resp[r].status = 201
  /\ \A r \in Requests : resp[r].status = 409 => OwnsOf(req[r].slotId) # {}

\* C28 witness: two requests, one by each entry point, were confirmed on two slots
C28_BothConfirmed ==
  \E r, q \in Requests :
    /\ req[r].slotId = 1 /\ req[r].entry = "bookSlot" /\ resp[r].status = 201
    /\ req[q].slotId = 2 /\ req[q].entry = "createBooking" /\ resp[q].status = 201

\* C29: every request that reached its handler is eventually answered
\* 201, 400, 404, 409 or 500 with its connection back in the pool, for every
\* pool size from 1 up and every set of concurrent requests.
C29_EveryClaimAnswered ==
  \A r \in Requests :
    (pc[r] \notin {"idle", "done"})
      ~> (/\ pc[r] = "done"
          /\ resp[r].status \in {201, 400, 404, 409, 500}
          /\ ~tx[r].conn
          /\ checkouts[r].back = checkouts[r].out)

\* C29 witness: one request waits for a client of the pool, or for the
\* uncommitted booking_slots row of another request, which holds its own client
C29_Waiting ==
  \E r, q \in Requests :
    /\ r # q
    /\ tx[q].conn
    /\ \/ pc[r] = "getClient" /\ InUse >= poolMax
       \/ Blocked(r) /\ tx[q].own

====
